---- MODULE Spec2Model ----
(***************************************************************************)
(* Dice-notation interpreter of duragon: parseDice (packages/shared/src/   *)
(* dice/parser.ts) and roll / rollDice / rollDie / secureRandomInt         *)
(* (packages/shared/src/dice/roller.ts).                                   *)
(*                                                                         *)
(* A string is a sequence of one-character strings.  A JavaScript number   *)
(* is an integer, or one of the two infinities that parseInt yields for a  *)
(* digit run beyond the range of a double.                                 *)
(***************************************************************************)
EXTENDS Integers, Sequences, FiniteSets, TLC

VARIABLES
    pc,           \* where the caller is: idle, parsed, failed, rolling, done, threw, die, dieDone
    given,        \* history: the parts the expression was written out from
    expression,   \* the argument of the parseDice call in progress
    outcome,      \* what parseDice gave: a descriptor or a DiceParseError
    dice,         \* the argument of the roll call in progress
    rawRolls,     \* roll / rollDice: the results array being filled
    draws,        \* history: the values rollDie returned in this call, in call order
    max,          \* secureRandomInt: its parameter
    randomValue,  \* secureRandomInt: the word last read from the random source
    result,       \* what roll returned, or what rollDie returned
    sourceCalled, \* history: crypto.getRandomValues was called in the call in progress
    calls,        \* two callers at once: the locals of each caller's parseDice / roll
    arrays,       \* two callers at once: the Uint32Array(1) of each secureRandomInt
    inputExpression, \* DiceInput: the state expression, the text of the input
    inputError,   \* DiceInput: the state error, the message under the input
    inputEvent,   \* history: the handler of DiceInput that ran last and its onRoll calls
    appRolls,     \* App: the state rolls, the history on the screen
    arrived,      \* history: how many results App.handleRoll has been given
    now,          \* the clock that new Date() reads
    toastId,      \* the module-level counter toastId of the toast module
    toasts,       \* ToastProvider: the state toasts
    returned,     \* history: the ids addToast returned, in call order
    toastEvent    \* history: the last call of addToast / removeToast and the list before it

vars ==
    <<pc, given, expression, outcome, dice, rawRolls, draws, max, randomValue, result,
      sourceCalled, calls, arrays, inputExpression, inputError, inputEvent, appRolls,
      arrived, now, toastId, toasts, returned, toastEvent>>

\* the state of the single caller
single ==
    <<pc, given, expression, outcome, dice, rawRolls, draws, max, randomValue, result,
      sourceCalled>>

\* the state of the two callers at once
concurrent == <<calls, arrays>>

\* the state of the DiceInput component
diceInput == <<inputExpression, inputError, inputEvent>>

\* the state of the App component
app == <<appRolls, arrived, now>>

\* the state of the toast module and its provider
toast == <<toastId, toasts, returned, toastEvent>>

\* the state of the web application
web == <<diceInput, app, toast>>

\* a variable that holds no value at this point of the program
Nothing == [nothing |-> TRUE]
NoWord == 0 - 1

----------------------------------------------------------------------------
(* Bounds of the model. *)

\* roll is exercised on descriptors of at most this many dice
MaxRollCount == 3
\* roll is exercised on descriptors of at most this many sides
MaxRollSides == 3
\* width in bits of the random word (32 in the source)
WordBits == 3

----------------------------------------------------------------------------
(* Characters and strings. *)

DigitChars == <<"0", "1", "2", "3", "4", "5", "6", "7", "8", "9">>

Digits == {DigitChars[i] : i \in 1..10}

DigitValue(c) == (CHOOSE i \in 1..10 : DigitChars[i] = c) - 1

WhiteSpace == {" ", "\t", "\n"}

\* letters left in the case they were typed in
ToLowerCase_Identity(c) == c

\* String.prototype.toLowerCase on the letters the grammar uses
ToLowerCase(c) ==
    CASE c = "D" -> "d"
      [] c = "K" -> "k"
      [] c = "H" -> "h"
      [] c = "L" -> "l"
      [] c = "X" -> "x"
      [] OTHER -> c

LowerStr(s) == [i \in 1..Len(s) |-> ToLowerCase(s[i])]

Drop(s, n) == SubSeq(s, n + 1, Len(s))

Take(s, n) == SubSeq(s, 1, n)

\* length of the longest prefix of s made of characters of set
PrefixRun(s, set) ==
    IF \A i \in 1..Len(s) : s[i] \in set THEN Len(s)
    ELSE (CHOOSE i \in 1..Len(s) :
             s[i] \notin set /\ \A j \in 1..(i - 1) : s[j] \in set) - 1

\* length of the longest suffix of s made of characters of set
SuffixRun(s, set) ==
    IF \A i \in 1..Len(s) : s[i] \in set THEN Len(s)
    ELSE Len(s) - (CHOOSE i \in 1..Len(s) :
                      s[i] \notin set /\ \A j \in (i + 1)..Len(s) : s[j] \in set)

\* String.prototype.trim
Trim(s) ==
    LET t == Drop(s, PrefixRun(s, WhiteSpace)) IN Take(t, Len(t) - SuffixRun(t, WhiteSpace))

\* length of the longest prefix of s made of digits (a greedy \d* )
DigitRun(s) == PrefixRun(s, Digits)

----------------------------------------------------------------------------
(* JavaScript numbers.  A number is held as an integer; the two infinities  *)
(* and "a finite double beyond the exact range" are held as the integers   *)
(* at the far ends of the checker's range, so that the comparisons of the  *)
(* source ( <, >, >= ) read as they do on doubles.                         *)

Infinity == 2147483647
NegInfinity == 0 - Infinity
\* stands for every finite double of 10 to MaxFiniteDigits digits
BigFinite == Infinity - 1

\* a decimal integer of more significant digits than this is above
\* Number.MAX_VALUE (1.79e308): parseInt gives Infinity
MaxFiniteDigits == 309

\* Number.isInteger
IsInteger(x) == x \in Int /\ x # Infinity /\ x # NegInfinity

\* s without its leading zeros, the last digit kept
StripZeros(s) ==
    LET z == PrefixRun(s, {"0"}) IN Drop(s, IF z = Len(s) THEN z - 1 ELSE z)

RECURSIVE DigitsValue(_)
DigitsValue(s) ==
    IF s = <<>> THEN 0
    ELSE 10 * DigitsValue(Take(s, Len(s) - 1)) + DigitValue(s[Len(s)])

\* parseInt(s, 10) for s matching \d+
ParseDigits(s) ==
    LET t == StripZeros(s) IN
    IF Len(t) > MaxFiniteDigits THEN Infinity
    ELSE IF Len(t) > 9 THEN BigFinite   \* beyond the integers computed exactly
    ELSE DigitsValue(t)

\* parseInt(s, 10) for s matching [+-]?\d+
ParseInt(s) ==
    IF Head(s) = "-" THEN 0 - ParseDigits(Tail(s))
    ELSE IF Head(s) = "+" THEN ParseDigits(Tail(s))
    ELSE ParseDigits(s)

\* a + x on doubles, for an exact integer a
Plus(a, x) ==
    IF x >= BigFinite \/ x <= 0 - BigFinite THEN x ELSE a + x

----------------------------------------------------------------------------
(* parseDice. *)

\* the selector alternatives of DICE_REGEX, in lower case
KeepSelectors == {<<"k", "h">>, <<"k", "l">>}

\* the drop alternatives (dh, dl) of the grammar
DropSelectors == {<<"d", "h">>, <<"d", "l">>}

Selectors == KeepSelectors \cup DropSelectors

NoMatch == [ok |-> FALSE]

\* the run a selector group (?:(kh|kl)(\d+))? takes at the start of r, 0 when
\* the group does not take part
SelectorRun(r) ==
    IF Len(r) >= 3 /\ LowerStr(Take(r, 2)) \in Selectors /\ DigitRun(Drop(r, 2)) >= 1
    THEN 2 + DigitRun(Drop(r, 2))
    ELSE 0

\* the run a modifier group ([+-]\d+)? takes at the start of r
ModifierRun(r) ==
    IF Len(r) >= 2 /\ Head(r) \in {"+", "-"} /\ DigitRun(Tail(r)) >= 1
    THEN 1 + DigitRun(Tail(r))
    ELSE 0

\* the match without its $: what follows the last group is not looked at
MatchEnd_Unanchored(t, n1, n2, n3, n4) ==
    [ok |-> TRUE,
     countStr |-> Take(t, n1),
     sidesStr |-> SubSeq(t, n1 + 2, n1 + 1 + n2),
     keepModeStr |-> IF n3 = 0 THEN <<>> ELSE SubSeq(t, n1 + n2 + 2, n1 + n2 + 3),
     keepCountStr |-> IF n3 = 0 THEN <<>> ELSE SubSeq(t, n1 + n2 + 4, n1 + n2 + 1 + n3),
     modifierStr |-> SubSeq(t, n1 + n2 + n3 + 2, n1 + n2 + n3 + n4 + 1)]

\* the $ of DICE_REGEX and the groups of the match: n1 digits of count, the d,
\* n2 digits of sides, n3 characters of selector, n4 of modifier; groups that
\* did not take part are the empty string (match[i] ?? '')
MatchEnd(t, n1, n2, n3, n4) ==
    IF n1 + 1 + n2 + n3 + n4 # Len(t) THEN NoMatch
    ELSE [ok |-> TRUE,
          countStr |-> Take(t, n1),
          sidesStr |-> SubSeq(t, n1 + 2, n1 + 1 + n2),
          keepModeStr |-> IF n3 = 0 THEN <<>> ELSE SubSeq(t, n1 + n2 + 2, n1 + n2 + 3),
          keepCountStr |-> IF n3 = 0 THEN <<>> ELSE SubSeq(t, n1 + n2 + 4, n1 + n2 + 1 + n3),
          modifierStr |-> Drop(t, n1 + 1 + n2 + n3)]

\* a second selector group let through after the first and not looked at
MatchModifier_SecondSelector(t, n1, n2, n3) ==
    LET k == n1 + 1 + n2 + n3
        extra == IF n3 = 0 THEN 0 ELSE SelectorRun(Drop(t, k))
        rest == Take(t, k) \o Drop(t, k + extra)
    IN MatchEnd(rest, n1, n2, n3, ModifierRun(Drop(rest, k)))

MatchModifier(t, n1, n2, n3) ==
    MatchEnd(t, n1, n2, n3, ModifierRun(Drop(t, n1 + 1 + n2 + n3)))

MatchSelector(t, n1, n2) ==
    IF n2 = 0 THEN NoMatch
    ELSE MatchModifier(t, n1, n2, SelectorRun(Drop(t, n1 + 1 + n2)))

MatchSides(t, n1) ==
    IF n1 >= Len(t) \/ ToLowerCase(t[n1 + 1]) # "d" THEN NoMatch
    ELSE MatchSelector(t, n1, DigitRun(Drop(t, n1 + 1)))

\* trimmed.match(DICE_REGEX): /^(\d*)d(\d+)(?:(kh|kl)(\d+))?([+-]\d+)?$/i
MatchDice(trimmed) == MatchSides(trimmed, DigitRun(trimmed))

\* the error carrying the trimmed string in place of the argument
DiceParseError_Trimmed(reason, expr) ==
    [ok |-> FALSE, name |-> "DiceParseError", reason |-> reason, expression |-> Trim(expr)]

\* new DiceParseError(message, expression); reason is the fixed part of the message
DiceParseError(reason, expr) ==
    [ok |-> FALSE, name |-> "DiceParseError", reason |-> reason, expression |-> expr]

MaxDiceCount == 100
MaxDiceSides == 1000

\* the sides checked before the count
ValidateCountSides_SidesFirst(count, sides) ==
    IF sides < 1 THEN "Invalid number of sides: Must be at least 1"
    ELSE IF sides > MaxDiceSides THEN "Invalid number of sides: Maximum is 1000"
    ELSE IF count < 1 THEN "Invalid dice count: Must be at least 1"
    ELSE IF count > MaxDiceCount THEN "Invalid dice count: Maximum is 100 dice"
    ELSE ""

\* the two maxima taken as exclusive: >= where the source has >
ValidateCountSides_Exclusive(count, sides) ==
    IF count < 1 THEN "Invalid dice count: Must be at least 1"
    ELSE IF count >= MaxDiceCount THEN "Invalid dice count: Maximum is 100 dice"
    ELSE IF sides < 1 THEN "Invalid number of sides: Must be at least 1"
    ELSE IF sides >= MaxDiceSides THEN "Invalid number of sides: Maximum is 1000"
    ELSE ""

\* the count and sides checks of parseDice, in source order; "" when all pass
ValidateCountSides(count, sides) ==
    IF count < 1 THEN "Invalid dice count: Must be at least 1"
    ELSE IF count > MaxDiceCount THEN "Invalid dice count: Maximum is 100 dice"
    ELSE IF sides < 1 THEN "Invalid number of sides: Must be at least 1"
    ELSE IF sides > MaxDiceSides THEN "Invalid number of sides: Maximum is 1000"
    ELSE ""

\* the keepCount checks without the upper bound
ValidateKeep_NoUpperBound(hasKeep, keepCount, count) ==
    IF hasKeep /\ keepCount < 1 THEN "Invalid keep count: Must be at least 1"
    ELSE ""

\* keeping every die refused: >= where the source has >
ValidateKeep_Exclusive(hasKeep, keepCount, count) ==
    IF hasKeep /\ keepCount < 1 THEN "Invalid keep count: Must be at least 1"
    ELSE IF hasKeep /\ keepCount >= count
        THEN "Invalid keep count: Cannot keep more dice than rolled"
    ELSE ""

\* the keepCount checks of parseDice; "" when they pass
ValidateKeep(hasKeep, keepCount, count) ==
    IF hasKeep /\ keepCount < 1 THEN "Invalid keep count: Must be at least 1"
    ELSE IF hasKeep /\ keepCount > count
        THEN "Invalid keep count: Cannot keep more dice than rolled"
    ELSE ""

\* dropping every die let through: > where the rule has >=
ValidateDrop_AllowsAll(hasDrop, dropCount, count) ==
    IF hasDrop /\ dropCount < 1 THEN "Invalid drop count: Must be at least 1"
    ELSE IF hasDrop /\ dropCount > count
        THEN "Invalid drop count: Cannot drop all or more dice than rolled"
    ELSE ""

\* the dropCount checks (rule 6 of the validation order); "" when they pass
ValidateDrop(hasDrop, dropCount, count) ==
    IF hasDrop /\ dropCount < 1 THEN "Invalid drop count: Must be at least 1"
    ELSE IF hasDrop /\ dropCount >= count
        THEN "Invalid drop count: Cannot drop all or more dice than rolled"
    ELSE ""

\* the first failing check, in the order the checks are written
FirstError(reasons) ==
    IF \A i \in 1..Len(reasons) : reasons[i] = "" THEN ""
    ELSE reasons[CHOOSE i \in 1..Len(reasons) :
                    /\ reasons[i] # ""
                    /\ \A j \in 1..(i - 1) : reasons[j] = ""]

\* kh and kl taken for each other
KeepFields_Swapped(keepModeStr, keepCount) ==
    [keep |-> IF LowerStr(keepModeStr) = <<"k", "h">> THEN "lowest" ELSE "highest",
     keepCount |-> keepCount]

\* keep = keepModeStr.toLowerCase() === 'kh' ? 'highest' : 'lowest'
KeepFields(keepModeStr, keepCount) ==
    [keep |-> IF LowerStr(keepModeStr) = <<"k", "h">> THEN "highest" ELSE "lowest",
     keepCount |-> keepCount]

DropFields(dropModeStr, dropCount) ==
    [drop |-> IF LowerStr(dropModeStr) = <<"d", "h">> THEN "highest" ELSE "lowest",
     dropCount |-> dropCount]

\* parseDice from the validation on
Validated(expr, keepModeStr, count, sides, modifier, selCount) ==
    LET hasKeep == LowerStr(keepModeStr) \in KeepSelectors
        hasDrop == LowerStr(keepModeStr) \in DropSelectors
        reason == FirstError(<<ValidateCountSides(count, sides),
                               ValidateKeep(hasKeep, selCount, count),
                               ValidateDrop(hasDrop, selCount, count)>>)
        base == [count |-> count, sides |-> sides, modifier |-> modifier]
    IN
    IF reason # "" THEN DiceParseError(reason, expr)
    ELSE [ok |-> TRUE,
          dice |-> IF hasKeep THEN KeepFields(keepModeStr, selCount) @@ base
                   ELSE IF hasDrop THEN DropFields(keepModeStr, selCount) @@ base
                   ELSE base]

\* an omitted count read as 0 and an omitted modifier as an error
Matched_NoDefaults(expr, match) ==
    IF ~match.ok \/ match.modifierStr = <<>>
    THEN DiceParseError("Invalid dice expression", expr)
    ELSE Validated(expr,
                   match.keepModeStr,
                   IF match.countStr = <<>> THEN 0 ELSE ParseInt(match.countStr),
                   ParseInt(match.sidesStr),
                   ParseInt(match.modifierStr),
                   IF match.keepModeStr = <<>> THEN 0 ELSE ParseInt(match.keepCountStr))

\* parseDice from the match on
Matched(expr, match) ==
    IF ~match.ok THEN DiceParseError("Invalid dice expression", expr)
    ELSE Validated(expr,
                   match.keepModeStr,
                   IF match.countStr = <<>> THEN 1 ELSE ParseInt(match.countStr),
                   ParseInt(match.sidesStr),
                   IF match.modifierStr = <<>> THEN 0 ELSE ParseInt(match.modifierStr),
                   IF match.keepModeStr = <<>> THEN 0 ELSE ParseInt(match.keepCountStr))

\* parseDice from the trimmed string on
Trimmed(expr, trimmed) ==
    IF Len(trimmed) = 0 THEN DiceParseError("Expression cannot be empty", expr)
    ELSE Matched(expr, MatchDice(trimmed))

ParseDice(expr) ==
    IF expr = <<>>
    THEN DiceParseError("Expression must be a non-empty string", expr)
    ELSE Trimmed(expr, Trim(expr))

----------------------------------------------------------------------------
(* secureRandomInt. *)

RECURSIVE Pow2(_)
Pow2(n) == IF n = 0 THEN 1 ELSE 2 * Pow2(n - 1)

\* const maxUint32 = 0xFFFFFFFF, at the width of the model
maxUint32 == Pow2(WordBits) - 1

\* what crypto.getRandomValues can put in array[0]
Words == 0..maxUint32

\* no word is rejected: the plain modulo of the word
Limit_NoRejection(m) == maxUint32 + 1

\* only the words below max accepted
Limit_Tight(m) == m

\* const limit = maxUint32 - (maxUint32 % max)
Limit(m) == maxUint32 - (maxUint32 % m)

\* a loop that never ends: while (true)
Redraw_Always(r, m) == TRUE

\* the loop of secureRandomInt runs again while (randomValue >= limit)
Redraw(r, m) == r >= Limit(m)

\* the value shifted one too far, into 2..max + 1
DieValue_Shifted(r, m) == (r % m) + 2

\* the value not shifted into 1..max
DieValue_ZeroBased(r, m) == r % m

\* return (randomValue % max) + 1
DieValue(r, m) == (r % m) + 1

----------------------------------------------------------------------------
(* roll. *)

\* rawRolls.map((value, index) => ({ value, index })), index from 0
Indexed(raw) == [i \in 1..Len(raw) |-> [value |-> raw[i], index |-> i - 1]]

\* the comparator of indexed.sort is negative: a goes before b
Before(a, b, mode) ==
    IF mode = "highest" THEN b.value - a.value < 0 ELSE a.value - b.value < 0

\* x put in front of the entries equal to it: a sort that is not stable
RECURSIVE Insert_Unstable(_, _, _)
Insert_Unstable(x, s, mode) ==
    IF s = <<>> THEN <<x>>
    ELSE IF ~Before(Head(s), x, mode) THEN <<x>> \o s
    ELSE <<Head(s)>> \o Insert_Unstable(x, Tail(s), mode)

\* x put into the sorted s behind every entry it does not go before
RECURSIVE Insert(_, _, _)
Insert(x, s, mode) ==
    IF s = <<>> THEN <<x>>
    ELSE IF Before(x, Head(s), mode) THEN <<x>> \o s
    ELSE <<Head(s)>> \o Insert(x, Tail(s), mode)

\* the copy left in the order of the rolls
Sort_Unsorted(s, mode) == s

\* Array.prototype.sort with that comparator: a stable sort (ES2019)
RECURSIVE Sort(_, _)
Sort(s, mode) ==
    IF s = <<>> THEN <<>>
    ELSE Insert(s[Len(s)], Sort(Take(s, Len(s) - 1), mode), mode)

HasKeep(d) == "keep" \in DOMAIN d /\ "keepCount" \in DOMAIN d

HasDrop(d) == "drop" \in DOMAIN d /\ "dropCount" \in DOMAIN d

\* indexed[i]!.index throws when i is past the end of indexed
SelectionThrows(d, raw) == HasKeep(d) /\ d.keepCount > Len(raw)

\* the drop loop running over the first entries instead of the rest
KeptIndices_DropKeepsFirst(d, raw) ==
    IF HasKeep(d)
    THEN {Sort(Indexed(raw), d.keep)[i + 1].index : i \in 0..(d.keepCount - 1)}
    ELSE IF HasDrop(d)
    THEN {Sort(Indexed(raw), d.drop)[i + 1].index : i \in 0..(Len(raw) - d.dropCount - 1)}
    ELSE {i : i \in 0..(Len(raw) - 1)}

\* the keep loop ending one place early
KeptIndices_KeepOneFewer(d, raw) ==
    IF HasKeep(d)
    THEN {Sort(Indexed(raw), d.keep)[i + 1].index : i \in 0..(d.keepCount - 2)}
    ELSE IF HasDrop(d)
    THEN {Sort(Indexed(raw), d.drop)[i + 1].index : i \in d.dropCount..(Len(raw) - 1)}
    ELSE {i : i \in 0..(Len(raw) - 1)}

\* the drop loop starting one place late
KeptIndices_DropOneMore(d, raw) ==
    IF HasKeep(d)
    THEN {Sort(Indexed(raw), d.keep)[i + 1].index : i \in 0..(d.keepCount - 1)}
    ELSE IF HasDrop(d)
    THEN {Sort(Indexed(raw), d.drop)[i + 1].index : i \in (d.dropCount + 1)..(Len(raw) - 1)}
    ELSE {i : i \in 0..(Len(raw) - 1)}

\* the set keptIndices that roll fills
KeptIndices(d, raw) ==
    IF HasKeep(d)
    THEN {Sort(Indexed(raw), d.keep)[i + 1].index : i \in 0..(d.keepCount - 1)}
    ELSE IF HasDrop(d)
    THEN {Sort(Indexed(raw), d.drop)[i + 1].index : i \in d.dropCount..(Len(raw) - 1)}
    ELSE {i : i \in 0..(Len(raw) - 1)}

\* the outcomes built from the sorted values
Rolls_Sorted(raw, kept) ==
    [i \in 1..Len(raw) |->
        [value |-> Sort(Indexed(raw), "highest")[i].value, kept |-> (i - 1) \in kept]]

\* rawRolls.map((value, index) => ({ value, kept: keptIndices.has(index) }))
Rolls(raw, kept) ==
    [i \in 1..Len(raw) |-> [value |-> raw[i], kept |-> (i - 1) \in kept]]

\* the sum taken over all dice, kept or not
RECURSIVE Subtotal_AllDice(_)
Subtotal_AllDice(rolls) ==
    IF rolls = <<>> THEN 0
    ELSE Subtotal_AllDice(Take(rolls, Len(rolls) - 1)) + rolls[Len(rolls)].value

\* rolls.filter((r) => r.kept).reduce((sum, r) => sum + r.value, 0)
RECURSIVE Subtotal(_)
Subtotal(rolls) ==
    IF rolls = <<>> THEN 0
    ELSE Subtotal(Take(rolls, Len(rolls) - 1))
            + (IF rolls[Len(rolls)].kept THEN rolls[Len(rolls)].value ELSE 0)

\* the RollResult that roll returns
RollResult(d, raw) ==
    LET rolls == Rolls(raw, KeptIndices(d, raw))
        subtotal == Subtotal(rolls)
    IN [dice |-> d,
        rolls |-> rolls,
        subtotal |-> subtotal,
        modifier |-> d.modifier,
        total |-> Plus(subtotal, d.modifier)]

----------------------------------------------------------------------------
(* The strings handed to parseDice.  An expression is written out from the  *)
(* numbers and letters a user means (count, sides, selector, modifier), or  *)
(* is one of a list of malformed strings.                                  *)

\* the part is left out of the expression
Omitted == 0 - 1

\* String(n) for a natural number n
RECURSIVE ToDigits(_)
ToDigits(n) ==
    IF n < 10 THEN <<DigitChars[n + 1]>>
    ELSE ToDigits(n \div 10) \o <<DigitChars[(n % 10) + 1]>>

Nines(n) == [i \in 1..n |-> "9"]

Zeros(n) == [i \in 1..n |-> "0"]

SelectorLetters ==
    {<<"k", "h">>, <<"k", "l">>, <<"d", "h">>, <<"d", "l">>,
     <<"K", "H">>, <<"D", "l">>, <<"k", "H">>}

\* count, leading zeros written before it
GivenCounts ==
    {<<Omitted, 0>>, <<0, 0>>, <<1, 0>>, <<2, 0>>, <<3, 0>>, <<4, 0>>, <<2, 1>>,
     <<MaxDiceCount, 0>>, <<MaxDiceCount + 1, 0>>}

GivenSides == {Omitted, 0, 1, 2, 3, 4, 6, 20, MaxDiceSides, MaxDiceSides + 1}

\* selector letters, selector number
GivenSelectors ==
    {<<<<>>, 0>>} \cup {<<m, n>> : m \in SelectorLetters, n \in 0..4}

\* sign, absolute value, written with more digits than a double can hold
GivenModifiers == {<<"", 0, FALSE>>, <<"+", 2, FALSE>>, <<"-", 1, FALSE>>}

LongModifiers == {<<"+", 0, TRUE>>, <<"-", 0, TRUE>>}

\* white space typed before and after the expression
NoPad == <<<<>>, <<>>>>

GivenPads == {NoPad, <<<<" ">>, <<"\t", "\n">>>>}

Given(c, d, sd, sel, m, p) ==
    [count |-> c[1], zeros |-> c[2], d |-> d, sides |-> sd,
     sel |-> sel[1], n |-> sel[2],
     sign |-> m[1], abs |-> m[2], long |-> m[3],
     lead |-> p[1], trail |-> p[2]]

\* the expression as typed, without the white space around it
FormatParts(g) ==
    (IF g.count = Omitted THEN <<>> ELSE Zeros(g.zeros) \o ToDigits(g.count))
    \o <<g.d>>
    \o (IF g.sides = Omitted THEN <<>> ELSE ToDigits(g.sides))
    \o (IF g.sel = <<>> THEN <<>> ELSE g.sel \o ToDigits(g.n))
    \o (IF g.sign = "" THEN <<>>
        ELSE <<g.sign>> \o (IF g.long THEN Nines(MaxFiniteDigits + 1) ELSE ToDigits(g.abs)))

\* the expression as typed
Format(g) == g.lead \o FormatParts(g) \o g.trail

\* expressions with white space, extra characters or parts out of place
OtherExpressions ==
    {<<>>, <<" ">>, <<" ", "\t">>, <<"a", "b", "c">>,
     <<" ", "2", "d", "3", " ">>, <<"\t", "2", "d", "3", "k", "h", "1", "\n">>,
     <<"2", " ", "d", "3">>, <<"2", "d", "3", " ", "+", "2">>,
     <<"x", "2", "d", "3">>, <<"2", "d", "3", "x">>, <<"2", "d", "3", "+">>,
     <<"2", "d", "3", "+", "2", "k", "h", "1">>,
     <<"3", "d", "3", "k", "h", "2", "d", "l", "1">>,
     <<"2", "d", "3", "k", "h", "1", "k", "l", "1">>,
     <<"2", "d", "3", "k", "1">>, <<"2", "d", "3", "k", "h">>,
     <<" ", "2", "d", "6", " ">>, <<"2", " ", "d", "6">>,
     <<"2", "d", "6", " ", "+", "3">>, <<"x", "2", "d", "6">>,
     <<"2", "d", "6", "x">>, <<"2", "d", "6", "+">>,
     <<"2", "d", "2", "0", "+", "5", "k", "h", "1">>,
     <<"4", "d", "6", "k", "h", "3", "d", "l", "1">>,
     <<"2", "d", "2", "0", "k", "h", "1", "k", "l", "1">>}

----------------------------------------------------------------------------
(* The calls. *)

\* the two callers
Callers == {1, 2}

\* the locals of a caller that is in no call
IdleCall ==
    [pc |-> "idle", expression |-> <<>>, outcome |-> Nothing, dice |-> Nothing,
     rawRolls |-> <<>>, own |-> NoWord, ownValues |-> <<>>, result |-> Nothing]

\* useState<string | null>(null): no message is shown
NoError == [shown |-> FALSE, message |-> ""]

\* the message shown under the input
Shown(message) == [shown |-> TRUE, message |-> message]

\* no handler has run yet
NoEvent == [kind |-> "none"]

Init ==
    /\ pc = "idle"
    /\ given = Nothing
    /\ expression = <<>>
    /\ outcome = Nothing
    /\ dice = Nothing
    /\ rawRolls = <<>>
    /\ draws = <<>>
    /\ max = 0
    /\ randomValue = NoWord
    /\ result = Nothing
    /\ sourceCalled = FALSE
    /\ calls = [c \in Callers |-> IdleCall]
    /\ arrays = [c \in Callers |-> NoWord]
    /\ inputExpression = <<>>
    /\ inputError = NoError
    /\ inputEvent = NoEvent
    /\ appRolls = <<>>
    /\ arrived = 0
    /\ now = 0
    /\ toastId = 0
    /\ toasts = <<>>
    /\ returned = <<>>
    /\ toastEvent = NoEvent

\* a caller runs parseDice(e) to its return or its throw
CallParseDice(e, g) ==
    /\ given' = g
    /\ expression' = e
    /\ outcome' = ParseDice(e)
    /\ pc' = IF outcome'.ok THEN "parsed" ELSE "failed"
    /\ UNCHANGED <<dice, rawRolls, draws, max, randomValue, result, sourceCalled>>
    /\ UNCHANGED <<concurrent, web>>

\* the caller hands the descriptor to roll, which enters rollDice
CallRoll ==
    /\ pc = "parsed"
    /\ outcome.dice.count <= MaxRollCount
    /\ outcome.dice.sides <= MaxRollSides
    /\ dice' = outcome.dice
    /\ max' = outcome.dice.sides
    /\ rawRolls' = <<>>
    /\ draws' = <<>>
    /\ given' = Nothing
    /\ expression' = <<>>
    /\ outcome' = Nothing
    /\ pc' = "rolling"
    /\ UNCHANGED <<randomValue, result, sourceCalled>>
    /\ UNCHANGED <<concurrent, web>>

\* a caller runs rollDie(s)
CallRollDie(s) ==
    /\ max' = s
    /\ pc' = "die"
    /\ UNCHANGED <<given, expression, outcome, dice, rawRolls, draws, randomValue, result,
                   sourceCalled>>
    /\ UNCHANGED <<concurrent, web>>

\* secureRandomInt returns v: to the loop of rollDice, or to the caller of rollDie
ReturnDie(v) ==
    IF pc = "rolling"
    THEN /\ rawRolls' = Append(rawRolls, v)
         /\ draws' = Append(draws, v)
         /\ UNCHANGED <<pc, result>>
    ELSE /\ pc' = "dieDone"
         /\ result' = [value |-> v]
         /\ UNCHANGED <<rawRolls, draws>>

\* secureRandomInt without its early return for max === 1
SecureRandomInt_NoShortcut(r) ==
    /\ IF max < 1
       THEN /\ pc' = "threw"
            /\ UNCHANGED <<rawRolls, draws, randomValue, result, sourceCalled>>
       ELSE IF Redraw(r, max)
       THEN /\ randomValue' = r
            /\ sourceCalled' = TRUE
            /\ UNCHANGED <<pc, rawRolls, draws, result>>
       ELSE /\ randomValue' = IF pc = "rolling" THEN NoWord ELSE r
            /\ sourceCalled' = TRUE
            /\ ReturnDie(DieValue(r, max))
    /\ UNCHANGED <<given, expression, outcome, dice, max>>
    /\ UNCHANGED <<concurrent, web>>

\* secureRandomInt(max): its early exits, or one turn of its loop reading the word r
SecureRandomInt(r) ==
    /\ IF max < 1
       THEN /\ pc' = "threw"
            /\ UNCHANGED <<rawRolls, draws, randomValue, result, sourceCalled>>
       ELSE IF max = 1
       THEN /\ ReturnDie(1)
            /\ UNCHANGED <<randomValue, sourceCalled>>
       ELSE IF Redraw(r, max)
       THEN /\ randomValue' = r
            /\ sourceCalled' = TRUE
            /\ UNCHANGED <<pc, rawRolls, draws, result>>
       ELSE /\ randomValue' = IF pc = "rolling" THEN NoWord ELSE r
            /\ sourceCalled' = TRUE
            /\ ReturnDie(DieValue(r, max))
    /\ UNCHANGED <<given, expression, outcome, dice, max>>
    /\ UNCHANGED <<concurrent, web>>

\* rollDice has returned: roll selects, totals and returns
RollReturn ==
    /\ pc = "rolling"
    /\ ~(Len(rawRolls) < dice.count)
    /\ IF SelectionThrows(dice, rawRolls)
       THEN /\ pc' = "threw"
            /\ UNCHANGED result
       ELSE /\ pc' = "done"
            /\ result' = RollResult(dice, rawRolls)
    /\ UNCHANGED <<given, expression, outcome, dice, rawRolls, draws, max, randomValue,
                   sourceCalled>>
    /\ UNCHANGED <<concurrent, web>>

\* the call is over and the caller is free to make another
Finish ==
    /\ pc \in {"parsed", "failed", "done", "threw", "dieDone"}
    /\ pc' = "idle"
    /\ given' = Nothing
    /\ expression' = <<>>
    /\ outcome' = Nothing
    /\ dice' = Nothing
    /\ rawRolls' = <<>>
    /\ draws' = <<>>
    /\ max' = 0
    /\ randomValue' = NoWord
    /\ result' = Nothing
    /\ sourceCalled' = FALSE
    /\ UNCHANGED <<concurrent, web>>

ParseDiceCall ==
    /\ pc = "idle"
    /\ \/ \E c \in GivenCounts, d \in {"d", "D"}, sd \in GivenSides,
             sel \in GivenSelectors, m \in GivenModifiers, p \in GivenPads :
                CallParseDice(Format(Given(c, d, sd, sel, m, p)), Given(c, d, sd, sel, m, p))
       \/ \E c \in {<<Omitted, 0>>, <<2, 0>>}, sd \in {2, 3},
             sel \in {<<<<>>, 0>>, <<<<"k", "h">>, 1>>}, m \in LongModifiers :
                CallParseDice(Format(Given(c, "d", sd, sel, m, NoPad)),
                              Given(c, "d", sd, sel, m, NoPad))
       \/ \E e \in OtherExpressions : CallParseDice(e, Nothing)

RollDieCall == pc = "idle" /\ \E s \in 1..maxUint32 : CallRollDie(s)

\* rollDie is running, or the loop of rollDice has dice left to roll
InSecureRandomInt ==
    \/ pc = "die"
    \/ pc = "rolling" /\ Len(rawRolls) < dice.count

DrawStep == InSecureRandomInt /\ \E r \in Words : SecureRandomInt(r)

Next ==
    \/ ParseDiceCall
    \/ CallRoll
    \/ RollDieCall
    \/ DrawStep
    \/ RollReturn
    \/ Finish

Spec == Init /\ [][Next]_vars

\* a turn of the loop of secureRandomInt in which the source returns a word
\* below limit
AcceptedDraw ==
    /\ InSecureRandomInt
    /\ \E r \in Words : r < Limit(max) /\ SecureRandomInt(r)

\* rollDice has returned and roll goes on to its return: the step RollReturn,
\* told by where the caller is before and after it
RollExit ==
    /\ pc = "rolling"
    /\ ~(Len(rawRolls) < dice.count)
    /\ pc' \in {"done", "threw"}

\* the calls run on, and the source returns a word below limit in the end
SpecFair == Spec /\ WF_vars(AcceptedDraw) /\ WF_pc(RollExit)

----------------------------------------------------------------------------
(* Two callers at once.  Each caller parses an expression and rolls the    *)
(* descriptor; the callers' steps interleave between any two statements of *)
(* secureRandomInt that touch its array.                                   *)

\* what the two callers parse
ConcurrentExpressions ==
    {<<"2", "d", "3", "k", "h", "1">>, <<"2", "d", "2", "+", "2">>, <<"d", "1">>,
     <<"2", "d">>}

\* one array for all calls: const array moved out of the function
ArrayOf_Shared(c) == 1

\* const array = new Uint32Array(1): an array of its own for every call
ArrayOf(c) == c

\* parseDice looking at an array of the roller: refusing while a word is in one
ParseBy_ReadsArray(c, e) ==
    /\ calls[c].pc = "idle"
    /\ calls' =
          [calls EXCEPT
              ![c].expression = e,
              ![c].outcome =
                  IF \E a \in Callers : arrays[a] # NoWord
                  THEN DiceParseError("Invalid dice expression", e)
                  ELSE ParseDice(e),
              ![c].pc =
                  IF (\A a \in Callers : arrays[a] = NoWord) /\ ParseDice(e).ok
                  THEN "parsed" ELSE "failed"]
    /\ UNCHANGED arrays
    /\ UNCHANGED <<single, web>>

\* caller c runs parseDice(e) to its return or its throw
ParseBy(c, e) ==
    /\ calls[c].pc = "idle"
    /\ calls' = [calls EXCEPT ![c].expression = e,
                              ![c].outcome = ParseDice(e),
                              ![c].pc = IF ParseDice(e).ok THEN "parsed" ELSE "failed"]
    /\ UNCHANGED arrays
    /\ UNCHANGED <<single, web>>

\* caller c hands its descriptor to roll, which enters rollDice
RollBy(c) ==
    /\ calls[c].pc = "parsed"
    /\ calls' = [calls EXCEPT ![c].dice = calls[c].outcome.dice,
                              ![c].pc = "rolling"]
    /\ UNCHANGED arrays
    /\ UNCHANGED <<single, web>>

\* secureRandomInt(1) in the loop of rollDice of caller c
OneBy(c) ==
    /\ calls[c].pc = "rolling"
    /\ Len(calls[c].rawRolls) < calls[c].dice.count
    /\ calls[c].dice.sides = 1
    /\ calls' = [calls EXCEPT ![c].rawRolls = Append(@, 1),
                              ![c].ownValues = Append(@, 1)]
    /\ UNCHANGED arrays
    /\ UNCHANGED <<single, web>>

\* crypto.getRandomValues(array) in secureRandomInt of caller c: the source
\* writes the word r
GetRandomValuesBy(c, r) ==
    /\ calls[c].pc = "rolling"
    /\ Len(calls[c].rawRolls) < calls[c].dice.count
    /\ calls[c].dice.sides > 1
    /\ arrays' = [arrays EXCEPT ![ArrayOf(c)] = r]
    /\ calls' = [calls EXCEPT ![c].own = r, ![c].pc = "filled"]
    /\ UNCHANGED <<single, web>>

\* randomValue = array[0], the loop test and the return of secureRandomInt of
\* caller c; the word is read once, and the array is not read again before
\* crypto.getRandomValues has written to it
ReadArrayBy(c) ==
    /\ calls[c].pc = "filled"
    /\ calls' =
          [calls EXCEPT
              ![c].pc = "rolling",
              ![c].own = NoWord,
              ![c].rawRolls =
                  IF Redraw(arrays[ArrayOf(c)], calls[c].dice.sides) THEN @
                  ELSE Append(@, DieValue(arrays[ArrayOf(c)], calls[c].dice.sides)),
              ![c].ownValues =
                  IF Redraw(calls[c].own, calls[c].dice.sides) THEN @
                  ELSE Append(@, DieValue(calls[c].own, calls[c].dice.sides))]
    /\ arrays' = [arrays EXCEPT ![ArrayOf(c)] = NoWord]
    /\ UNCHANGED <<single, web>>

\* rollDice of caller c has returned: roll selects, totals and returns
ReturnBy(c) ==
    /\ calls[c].pc = "rolling"
    /\ ~(Len(calls[c].rawRolls) < calls[c].dice.count)
    /\ calls' = [calls EXCEPT ![c].pc = "done",
                              ![c].result = RollResult(calls[c].dice, calls[c].rawRolls)]
    /\ UNCHANGED arrays
    /\ UNCHANGED <<single, web>>

\* the call of caller c is over
FinishBy(c) ==
    /\ calls[c].pc \in {"failed", "done"}
    /\ calls' = [calls EXCEPT ![c] = IdleCall]
    /\ UNCHANGED arrays
    /\ UNCHANGED <<single, web>>

ParseStep == \E c \in Callers, e \in ConcurrentExpressions : ParseBy(c, e)

RollStep == \E c \in Callers : RollBy(c)

OneStep == \E c \in Callers : OneBy(c)

GetRandomValuesStep == \E c \in Callers, r \in Words : GetRandomValuesBy(c, r)

ReadArrayStep == \E c \in Callers : ReadArrayBy(c)

ReturnStep == \E c \in Callers : ReturnBy(c)

FinishStep == \E c \in Callers : FinishBy(c)

NextConcurrent ==
    \/ ParseStep
    \/ RollStep
    \/ OneStep
    \/ GetRandomValuesStep
    \/ ReadArrayStep
    \/ ReturnStep
    \/ FinishStep

SpecConcurrent == Init /\ [][NextConcurrent]_vars

----------------------------------------------------------------------------
(* The DiceInput component (apps/web/src/components/dice/DiceInput.tsx): a  *)
(* text input and a Roll button.  A handler runs to its end before the     *)
(* next event is taken, and the state it sets is in place by then.         *)

\* what a user types into the input
InputTexts ==
    {<<>>, <<" ">>,
     <<"2", "d", "3", "k", "h", "1">>,
     <<"3", "d", "3", "k", "l", "2">>,
     <<" ", "d", "2", "+", "2", " ">>,
     <<"a", "b", "c">>,
     <<"2", "d", "0">>,
     <<"0", "d", "2">>,
     <<"2", "d", "3", "k", "h", "3">>,
     <<"1", "d", "2", "0", "+", "5">>,
     <<"2", "D", "6">>}

\* the arrays rollDice can return for descriptor d
RawRolls(d) == [1..d.count -> 1..d.sides]

\* the arrays rollDice can return when text is submitted; one empty array
\* when roll is not reached
RawRollsFor(text) ==
    IF ParseDice(Trim(text)).ok THEN RawRolls(ParseDice(Trim(text)).dice) ELSE {<<>>}

\* onChange of the input: the value typed is e.target.value
OnChange(value) ==
    /\ value # inputExpression
    /\ inputExpression' = value
    /\ inputError' = IF inputError.shown THEN NoError ELSE inputError
    /\ inputEvent' = [kind |-> "change", text |-> value, before |-> inputError,
                      onRoll |-> <<>>]
    /\ UNCHANGED <<single, concurrent, app, toast>>

\* handleRoll taking every DiceParseError for an unexpected error
HandleRoll_Unexpected(clearOnRoll, raw) ==
    /\ inputExpression' =
          IF ParseDice(Trim(inputExpression)).ok /\ clearOnRoll
          THEN <<>> ELSE inputExpression
    /\ inputError' =
          IF Trim(inputExpression) = <<>> THEN Shown("Please enter a dice expression")
          ELSE IF ~ParseDice(Trim(inputExpression)).ok
              THEN Shown("An unexpected error occurred")
          ELSE NoError
    /\ inputEvent' =
          [kind |-> "submit", text |-> inputExpression, before |-> inputError,
           onRoll |-> IF ParseDice(Trim(inputExpression)).ok
                      THEN <<RollResult(ParseDice(Trim(inputExpression)).dice, raw)>>
                      ELSE <<>>]
    /\ UNCHANGED <<single, concurrent, app, toast>>

\* handleRoll, run by the submit of the form and by the Enter key; raw is what
\* rollDice gives inside roll, clearOnRoll is the prop
HandleRoll(clearOnRoll, raw) ==
    LET trimmed == Trim(inputExpression)
        parsed == ParseDice(trimmed)
    IN  IF trimmed = <<>>
        THEN /\ inputError' = Shown("Please enter a dice expression")
             /\ inputEvent' = [kind |-> "submit", text |-> inputExpression,
                               before |-> inputError, onRoll |-> <<>>]
             /\ UNCHANGED inputExpression
             /\ UNCHANGED <<single, concurrent, app, toast>>
        ELSE IF ~parsed.ok
        THEN /\ inputError' = Shown(parsed.reason)
             /\ inputEvent' = [kind |-> "submit", text |-> inputExpression,
                               before |-> inputError, onRoll |-> <<>>]
             /\ UNCHANGED inputExpression
             /\ UNCHANGED <<single, concurrent, app, toast>>
        ELSE IF SelectionThrows(parsed.dice, raw)
        THEN /\ inputError' = Shown("An unexpected error occurred")
             /\ inputEvent' = [kind |-> "submit", text |-> inputExpression,
                               before |-> inputError, onRoll |-> <<>>]
             /\ UNCHANGED inputExpression
             /\ UNCHANGED <<single, concurrent, app, toast>>
        ELSE /\ inputError' = NoError
             /\ inputExpression' = IF clearOnRoll THEN <<>> ELSE inputExpression
             /\ inputEvent' = [kind |-> "submit", text |-> inputExpression,
                               before |-> inputError,
                               onRoll |-> <<RollResult(parsed.dice, raw)>>]
             /\ UNCHANGED <<single, concurrent, app, toast>>

OnChangeStep == \E value \in InputTexts : OnChange(value)

HandleRollStep ==
    \E clearOnRoll \in BOOLEAN :
        \E raw \in RawRollsFor(inputExpression) : HandleRoll(clearOnRoll, raw)

NextDiceInput ==
    \/ OnChangeStep
    \/ HandleRollStep

SpecDiceInput == Init /\ [][NextDiceInput]_vars

----------------------------------------------------------------------------
(* The App component (apps/web/src/App.tsx): the history of rolls.  Every   *)
(* RollResult handed to handleRoll is an object of its own; it is told     *)
(* apart by the number of its arrival.                                     *)

\* the clock is read at most this far
MaxClock == 2
\* handleRoll is called at most this many times
MaxArrivals == 12

\* the length of the history: the 10 of slice(0, 10)
HistoryLimit == 10

\* s.slice(0, n)
Slice(s, n) == SubSeq(s, 1, IF Len(s) < n THEN Len(s) ELSE n)

\* the new entry put at the end of the list
AddRoll_Appended(prev, entry) == Slice(prev \o <<entry>>, HistoryLimit)

\* the updater (prev) => [{ result, timestamp: new Date() }, ...prev].slice(0, 10)
AddRoll(prev, entry) == Slice(<<entry>> \o prev, HistoryLimit)

\* time passes
Tick ==
    /\ now < MaxClock
    /\ now' = now + 1
    /\ UNCHANGED <<appRolls, arrived>>
    /\ UNCHANGED <<single, concurrent, diceInput, toast>>

\* handleRoll(result), the onRoll of DiceInput and of DicePresets
AppHandleRoll ==
    /\ arrived < MaxArrivals
    /\ arrived' = arrived + 1
    /\ appRolls' = AddRoll(appRolls, [result |-> arrived + 1, timestamp |-> now])
    /\ UNCHANGED now
    /\ UNCHANGED <<single, concurrent, diceInput, toast>>

NextApp ==
    \/ Tick
    \/ AppHandleRoll

SpecApp == Init /\ [][NextApp]_vars

----------------------------------------------------------------------------
(* The toast notifications: the module-level counter toastId, and addToast *)
(* and removeToast of ToastProvider.                                       *)

\* addToast is called at most this many times
MaxToasts == 4

\* defaultDuration = 5000
DefaultDuration == 5000

\* the options addToast is called with
ToastOptions ==
    {[message |-> "saved"],
     [message |-> "failed", type |-> "error"],
     [message |-> "saved", type |-> "info", duration |-> 0]}

\* `toast-${n}`
ToastIdOf(n) == <<"t", "o", "a", "s", "t", "-">> \o ToDigits(n)

\* the ids removeToast is called with: ids addToast may have returned, and
\* toast-0, which it never returns
RemovedIds == {ToastIdOf(n) : n \in 0..MaxToasts}

\* the toast addToast builds
NewToast(id, options) ==
    [id |-> id,
     message |-> options.message,
     type |-> IF "type" \in DOMAIN options THEN options.type ELSE "info",
     duration |-> IF "duration" \in DOMAIN options THEN options.duration
                  ELSE DefaultDuration]

\* the id taken from the length of the list instead of the counter
AddToast_IdFromLength(options) ==
    /\ toastId < MaxToasts
    /\ toastId' = toastId + 1
    /\ toasts' = Append(toasts, NewToast(ToastIdOf(Len(toasts) + 1), options))
    /\ returned' = Append(returned, ToastIdOf(Len(toasts) + 1))
    /\ toastEvent' = [kind |-> "addToast", id |-> ToastIdOf(Len(toasts) + 1),
                      before |-> toasts]
    /\ UNCHANGED <<single, concurrent, diceInput, app>>

\* addToast(options)
AddToast(options) ==
    /\ toastId < MaxToasts
    /\ toastId' = toastId + 1
    /\ toasts' = Append(toasts, NewToast(ToastIdOf(toastId + 1), options))
    /\ returned' = Append(returned, ToastIdOf(toastId + 1))
    /\ toastEvent' = [kind |-> "addToast", id |-> ToastIdOf(toastId + 1),
                      before |-> toasts]
    /\ UNCHANGED <<single, concurrent, diceInput, app>>

\* removeToast(id), called by dismiss, by the close button and by the timer
\* of a toast
RemoveToast(id) ==
    /\ toasts' = SelectSeq(toasts, LAMBDA t : t.id # id)
    /\ toastEvent' = [kind |-> "removeToast", id |-> id, before |-> toasts]
    /\ UNCHANGED <<toastId, returned>>
    /\ UNCHANGED <<single, concurrent, diceInput, app>>

AddToastStep == \E options \in ToastOptions : AddToast(options)

RemoveToastStep == \E id \in RemovedIds : RemoveToast(id)

NextToast ==
    \/ AddToastStep
    \/ RemoveToastStep

SpecToast == Init /\ [][NextToast]_vars

----------------------------------------------------------------------------
(* What the data model asks of a descriptor, and what the typed parts mean. *)

\* the invariants of a DiceDescriptor
ValidDescriptor(d) ==
    /\ d.count \in 1..MaxDiceCount
    /\ d.sides \in 1..MaxDiceSides
    /\ IsInteger(d.modifier)
    /\ HasKeep(d) => d.keepCount \in 1..d.count
    /\ HasDrop(d) => d.dropCount \in 1..(d.count - 1)
    /\ ~(HasKeep(d) /\ HasDrop(d))

WrittenOut == pc \in {"parsed", "failed"} /\ given # Nothing

MeantCount == IF given.count = Omitted THEN 1 ELSE given.count

MeantModifier == IF given.sign = "-" THEN 0 - given.abs ELSE given.abs

MeantKeep == given.sel # <<>> /\ given.sel[1] \in {"k", "K"}

MeantDrop == given.sel # <<>> /\ given.sel[1] \in {"d", "D"}

MeantMode == IF given.sel[2] \in {"h", "H"} THEN "highest" ELSE "lowest"

MeantDescriptor ==
    LET base == [count |-> MeantCount, sides |-> given.sides, modifier |-> MeantModifier]
    IN IF MeantKeep THEN [keep |-> MeantMode, keepCount |-> given.n] @@ base
       ELSE IF MeantDrop THEN [drop |-> MeantMode, dropCount |-> given.n] @@ base
       ELSE base

----------------------------------------------------------------------------
(* The parser. *)

\* C1: every descriptor parseDice returns satisfies all invariants of the data
\* model at once: 1 <= count <= 100, 1 <= sides <= 1000, modifier an integer,
\* 1 <= keepCount <= count under a keep selector, 1 <= dropCount < count under a
\* drop selector.
C1_DescriptorInvariants ==
    pc = "parsed" => ValidDescriptor(outcome.dice)

FirstBrokenRule ==
    CASE MeantCount < 1 -> "Invalid dice count: Must be at least 1"
      [] MeantCount > 100 -> "Invalid dice count: Maximum is 100 dice"
      [] given.sides < 1 -> "Invalid number of sides: Must be at least 1"
      [] given.sides > 1000 -> "Invalid number of sides: Maximum is 1000"
      [] MeantKeep /\ given.n < 1 -> "Invalid keep count: Must be at least 1"
      [] MeantKeep /\ given.n > MeantCount
            -> "Invalid keep count: Cannot keep more dice than rolled"
      [] MeantDrop /\ given.n < 1 -> "Invalid drop count: Must be at least 1"
      [] MeantDrop /\ given.n >= MeantCount
            -> "Invalid drop count: Cannot drop all or more dice than rolled"
      [] OTHER -> ""

C11_CountSidesBounds ==
    (WrittenOut /\ given.sel = <<>> /\ given.count # Omitted /\ given.sides # Omitted) =>
        /\ outcome.ok <=> (given.count \in 1..100 /\ given.sides \in 1..1000)
        /\ outcome.ok => outcome.dice.count = given.count /\ outcome.dice.sides = given.sides
        /\ given.count < 1 => outcome.reason = "Invalid dice count: Must be at least 1"
        /\ given.count > 100 => outcome.reason = "Invalid dice count: Maximum is 100 dice"
        /\ (given.count \in 1..100 /\ given.sides < 1)
              => outcome.reason = "Invalid number of sides: Must be at least 1"
        /\ (given.count \in 1..100 /\ given.sides > 1000)
              => outcome.reason = "Invalid number of sides: Maximum is 1000"

\* C11 happens: "100d1000", both numbers at their maximum, has parsed
C11_Witness ==
    /\ pc = "parsed"
    /\ expression = ToDigits(100) \o <<"d">> \o ToDigits(1000)
    /\ outcome.dice = [count |-> 100, sides |-> 1000, modifier |-> 0]

\* C12: with count and sides in range, a keep selector (kh or kl) with number n
\* is refused when n < 1, refused with "cannot keep more dice than rolled" when
\* n > count, and parses for every 1 <= n <= count, n = count included; whatever
\* the count and the sides, n < 1 and n > count never parse.
C12_KeepCountBounds ==
    (WrittenOut /\ MeantKeep) =>
        /\ (given.n < 1 \/ given.n > MeantCount) => ~outcome.ok
        /\ (given.sides # Omitted /\ MeantCount \in 1..100 /\ given.sides \in 1..1000) =>
              /\ given.n < 1 => outcome.reason = "Invalid keep count: Must be at least 1"
              /\ given.n > MeantCount =>
                    outcome.reason = "Invalid keep count: Cannot keep more dice than rolled"
              /\ given.n \in 1..MeantCount =>
                    /\ outcome.ok
                    /\ HasKeep(outcome.dice)
                    /\ outcome.dice.keepCount = given.n

\* C12 happens: "2d20kh2", which keeps as many dice as it rolls, has parsed
C12_Witness ==
    /\ pc = "parsed"
    /\ expression = <<"2", "d", "2", "0", "k", "h", "2">>
    /\ outcome.dice.keepCount = 2
    /\ outcome.dice.count = 2

C14_Defaults ==
    (WrittenOut /\ given.sides # Omitted /\ ~given.long /\ FirstBrokenRule = "") =>
        /\ outcome.ok
        /\ given.count = Omitted => outcome.dice.count = 1
        /\ given.sign = "" => outcome.dice.modifier = 0
        /\ given.sign = "+" => outcome.dice.modifier = given.abs
        /\ given.sign = "-" => outcome.dice.modifier = 0 - given.abs
        /\ given.sel = <<>> => DOMAIN outcome.dice = {"count", "sides", "modifier"}

\* C14 happens: "d20" has parsed to count 1, sides 20, modifier 0 and nothing else
C14_Witness ==
    /\ pc = "parsed"
    /\ expression = <<"d", "2", "0">>
    /\ outcome.dice = [count |-> 1, sides |-> 20, modifier |-> 0]

\* the characters an expression of the grammar is made of
GrammarChars == Digits \cup {"d", "D", "k", "K", "h", "H", "l", "L", "+", "-"}

\* the strings of the claim that do not match the grammar as a whole
MalformedExamples ==
    {<<"2", " ", "d", "6">>, <<"2", "d", "6", " ", "+", "3">>,
     <<"x", "2", "d", "6">>, <<"2", "d", "6", "x">>, <<"2", "d", "6", "+">>,
     <<"2", "d", "2", "0", "+", "5", "k", "h", "1">>}

\* C15: the whole trimmed string is matched: white space around a well-formed
\* expression changes nothing (" 2d6 " parses like "2d6"), while white space
\* inside, extra characters before or after, and a modifier before the
\* selector are refused with the invalid-expression error.
C15_WholeStringMatch ==
    /\ (WrittenOut /\ given.sides # Omitted /\ ~given.long /\ FirstBrokenRule = "") =>
          /\ outcome.ok
          /\ outcome.dice = MeantDescriptor
    /\ (pc \in {"parsed", "failed"} /\ expression = <<" ", "2", "d", "6", " ">>) =>
          /\ outcome.ok
          /\ outcome.dice = [count |-> 2, sides |-> 6, modifier |-> 0]
    /\ (pc \in {"parsed", "failed"} /\ expression \in MalformedExamples) =>
          /\ ~outcome.ok
          /\ outcome.reason = "Invalid dice expression"
    /\ pc = "parsed" =>
          \A i \in 1..Len(expression) :
              IF expression[i] \in WhiteSpace
              THEN \/ \A j \in 1..i : expression[j] \in WhiteSpace
                   \/ \A j \in i..Len(expression) : expression[j] \in WhiteSpace
              ELSE expression[i] \in GrammarChars

\* C15 happens: "2d20+5kh1", the modifier before the selector, has been refused
C15_Witness ==
    /\ pc = "failed"
    /\ expression = <<"2", "d", "2", "0", "+", "5", "k", "h", "1">>
    /\ outcome.reason = "Invalid dice expression"

\* expressions with two selector groups
TwoSelectorExamples ==
    {<<"4", "d", "6", "k", "h", "3", "d", "l", "1">>,
     <<"2", "d", "2", "0", "k", "h", "1", "k", "l", "1">>,
     <<"3", "d", "3", "k", "h", "2", "d", "l", "1">>,
     <<"2", "d", "3", "k", "h", "1", "k", "l", "1">>}

\* C16: selection modes exclude each other: an expression with two selector
\* groups ("4d6kh3dl1", "2d20kh1kl1") does not parse, and no descriptor that
\* parseDice returns, and none that roll works on, carries both a keep and a
\* drop selection.
C16_OneSelector ==
    /\ (pc \in {"parsed", "failed"} /\ expression \in TwoSelectorExamples) => ~outcome.ok
    /\ pc = "parsed" => ~(HasKeep(outcome.dice) /\ HasDrop(outcome.dice))
    /\ pc \in {"rolling", "done"} => ~(HasKeep(dice) /\ HasDrop(dice))
    /\ pc = "done" => result.dice = dice

\* C16 happens: "4d6kh3dl1" has been refused
C16_Witness ==
    /\ pc = "failed"
    /\ expression = <<"4", "d", "6", "k", "h", "3", "d", "l", "1">>
    /\ outcome.name = "DiceParseError"

\* C17: every failure of parseDice is a DiceParseError whose expression field
\* is the string the caller passed, white space included, with a non-empty
\* reason and no descriptor; parseDice(""), parseDice("2d20kh0") and
\* parseDice("abc") all fail.
C17_ErrorCarriesInput ==
    /\ pc = "failed" =>
          /\ outcome.name = "DiceParseError"
          /\ outcome.expression = expression
          /\ given # Nothing =>
                outcome.expression = given.lead \o FormatParts(given) \o given.trail
          /\ outcome.reason # ""
          /\ "dice" \notin DOMAIN outcome
    /\ ( /\ pc \in {"parsed", "failed"}
         /\ expression \in {<<>>, <<"2", "d", "2", "0", "k", "h", "0">>, <<"a", "b", "c">>} )
       => pc = "failed"

\* C17 happens: " 2d20kh0\t\n" has been refused and the error carries it with
\* its white space
C17_Witness ==
    /\ pc = "failed"
    /\ given # Nothing
    /\ given.lead = <<" ">>
    /\ FormatParts(given) = <<"2", "d", "2", "0", "k", "h", "0">>
    /\ outcome.expression = <<" ", "2", "d", "2", "0", "k", "h", "0", "\t", "\n">>
    /\ outcome.reason = "Invalid keep count: Must be at least 1"

\* e with its upper-case letters d, k, h, l written in lower case
Folded(e) ==
    [i \in 1..Len(e) |->
        CASE e[i] = "D" -> "d"
          [] e[i] = "K" -> "k"
          [] e[i] = "H" -> "h"
          [] e[i] = "L" -> "l"
          [] OTHER -> e[i]]

\* C21: parsing does not look at the case of letters: an expression and the
\* same expression with d and the selector letters in lower case give equal
\* descriptors, or fail at the same validation check ("2D20KH1" parses like
\* "2d20kh1").
C21_CaseInsensitive ==
    pc \in {"parsed", "failed"} =>
        /\ outcome.ok = ParseDice(Folded(expression)).ok
        /\ outcome.ok => outcome.dice = ParseDice(Folded(expression)).dice
        /\ ~outcome.ok => outcome.reason = ParseDice(Folded(expression)).reason

\* C21 happens: "2D20KH1" has parsed to what "2d20kh1" parses to
C21_Witness ==
    /\ pc = "parsed"
    /\ expression = <<"2", "D", "2", "0", "K", "H", "1">>
    /\ outcome.dice =
         [count |-> 2, sides |-> 20, modifier |-> 0, keep |-> "highest", keepCount |-> 1]

----------------------------------------------------------------------------
(* The roller. *)

Outcomes == result.rolls

Kept == {i \in DOMAIN Outcomes : Outcomes[i].kept}

Dropped == DOMAIN Outcomes \ Kept

\* the sum of the values of the outcomes whose place is in S
RECURSIVE SumValues(_, _)
SumValues(rolls, S) ==
    IF S = {} THEN 0
    ELSE LET i == CHOOSE j \in S : TRUE
         IN rolls[i].value + SumValues(rolls, S \ {i})

\* C2: for a valid descriptor, subtotal is the sum of the values of exactly the
\* outcomes marked kept, total = subtotal + modifier, the modifier of the result
\* is the modifier of the descriptor, and the result carries the descriptor
\* that was passed in.
C2_Totals ==
    (pc = "done" /\ ValidDescriptor(dice)) =>
        /\ result.subtotal = SumValues(Outcomes, Kept)
        /\ result.total = result.subtotal + result.modifier
        /\ result.modifier = dice.modifier
        /\ result.dice = dice

\* C2 happens: a roll with a dropped die and a modifier has returned
C2_Witness ==
    /\ pc = "done"
    /\ ValidDescriptor(dice)
    /\ Dropped # {}
    /\ dice.modifier # 0
    /\ result.total # SumValues(Outcomes, DOMAIN Outcomes)

\* C3: without a selector roll returns exactly count outcomes, all kept, every
\* value in 1..sides, and total = (sum of all values) + modifier.
C3_NoSelector ==
    (pc = "done" /\ ~HasKeep(dice) /\ ~HasDrop(dice)) =>
        /\ Len(Outcomes) = dice.count
        /\ \A i \in DOMAIN Outcomes :
              Outcomes[i].kept /\ Outcomes[i].value \in 1..dice.sides
        /\ result.total =
              IF IsInteger(dice.modifier)
              THEN SumValues(Outcomes, DOMAIN Outcomes) + dice.modifier
              ELSE dice.modifier

\* C3 happens: three dice without a selector, with a modifier, have been rolled
C3_Witness ==
    /\ pc = "done"
    /\ ~HasKeep(dice) /\ ~HasDrop(dice)
    /\ dice.count = 3
    /\ dice.modifier = 2
    /\ Outcomes[1].value # Outcomes[2].value

\* C4: under KeepHighest(n) (KeepLowest(n)) exactly n dice are kept, every kept
\* value is >= (<=) every dropped value, and of a kept and a dropped die of
\* equal value the kept one was rolled first.
C4_KeepSelection ==
    (pc = "done" /\ HasKeep(dice)) =>
        /\ Cardinality(Kept) = dice.keepCount
        /\ \A i \in Kept, j \in Dropped :
              /\ dice.keep = "highest" => Outcomes[i].value >= Outcomes[j].value
              /\ dice.keep = "lowest" => Outcomes[i].value <= Outcomes[j].value
              /\ Outcomes[i].value = Outcomes[j].value => i < j

\* C4 happens: keep highest 1 of two equal dice has kept the first
C4_Witness ==
    /\ pc = "done"
    /\ HasKeep(dice)
    /\ dice.keep = "highest"
    /\ dice.count = 2
    /\ dice.keepCount = 1
    /\ Outcomes[1].value = Outcomes[2].value
    /\ Kept = {1}

\* C5: under DropHighest(n) (DropLowest(n)) exactly count - n dice are kept and
\* n dropped, every dropped value is >= (<=) every kept value, and of a dropped
\* and a kept die of equal value the dropped one was rolled first.
C5_DropSelection ==
    (pc = "done" /\ HasDrop(dice)) =>
        /\ Cardinality(Kept) = dice.count - dice.dropCount
        /\ Cardinality(Dropped) = dice.dropCount
        /\ \A i \in Dropped, j \in Kept :
              /\ dice.drop = "highest" => Outcomes[i].value >= Outcomes[j].value
              /\ dice.drop = "lowest" => Outcomes[i].value <= Outcomes[j].value
              /\ Outcomes[i].value = Outcomes[j].value => i < j

\* C5 happens: drop lowest 1 of the rolls 2, 1, 1 has dropped the first 1
C5_Witness ==
    /\ pc = "done"
    /\ HasDrop(dice)
    /\ dice.drop = "lowest"
    /\ dice.dropCount = 1
    /\ draws = <<2, 1, 1>>
    /\ Dropped = {2}

\* C6: roll draws exactly count dice one after another and the i-th outcome
\* carries the value of the i-th draw, whatever the selector: selection never
\* reorders, removes or duplicates outcomes.
C6_DrawOrder ==
    /\ pc = "rolling" => Len(draws) <= dice.count
    /\ pc = "done" =>
          /\ Len(draws) = dice.count
          /\ Len(Outcomes) = dice.count
          /\ \A i \in 1..dice.count : Outcomes[i].value = draws[i]

\* C6 happens: keep highest on rolls drawn in rising order, which the sort of
\* the selection reverses
C6_Witness ==
    /\ pc = "done"
    /\ HasKeep(dice)
    /\ dice.keep = "highest"
    /\ dice.count = 3
    /\ draws[1] < draws[2] /\ draws[2] < draws[3]

\* the limit of the claim: (2^W - 1) - ((2^W - 1) mod sides)
ClaimedLimit(sides) == (Pow2(WordBits) - 1) - ((Pow2(WordBits) - 1) % sides)

\* C7: for sides >= 2 a drawn word r is accepted iff r < limit, the value
\* returned is (r mod sides) + 1 and lies in 1..sides, and every face in
\* 1..sides has exactly limit / sides accepted words.
C7_UniformDraw ==
    (pc \in {"die", "dieDone"} /\ max >= 2) =>
        /\ randomValue # NoWord => (pc = "dieDone" <=> randomValue < ClaimedLimit(max))
        /\ pc = "dieDone" =>
              /\ result.value = (randomValue % max) + 1
              /\ result.value \in 1..max
        /\ \A face \in 1..max :
              Cardinality({r \in Words : ~Redraw(r, max) /\ DieValue(r, max) = face})
                  = ClaimedLimit(max) \div max

\* C7 happens: a die whose sides do not divide the accepted range evenly without
\* rejection has returned its highest face
C7_Witness ==
    /\ pc = "dieDone"
    /\ max >= 3
    /\ ClaimedLimit(max) < maxUint32
    /\ result.value = max

\* C8: roll has no error path for the descriptors parseDice returns:
\* secureRandomInt is never called with max < 1 and the selection never reads
\* past the end of the sorted copy.
C8_RollNeverThrows ==
    /\ pc # "threw"
    /\ pc = "parsed" =>
          /\ outcome.dice.sides >= 1
          /\ HasKeep(outcome.dice) => outcome.dice.keepCount <= outcome.dice.count
    /\ pc = "rolling" =>
          /\ max >= 1
          /\ HasKeep(dice) => dice.keepCount <= dice.count

\* C8 happens: a roll that keeps as many dice as it rolls has returned
C8_Witness ==
    /\ pc = "done"
    /\ HasKeep(dice)
    /\ dice.keepCount = dice.count
    /\ dice.count = MaxRollCount

\* the places (from 0) of the outcomes that roll marked kept
KeptPlaces == {i - 1 : i \in Kept}

\* the selection of the other kind and the same mode that leaves n dice where d
\* leaves count - n: DropHighest(count - n) for KeepHighest(n)
SameModeDual(d) ==
    IF HasKeep(d) THEN [drop |-> d.keep, dropCount |-> d.count - d.keepCount]
    ELSE [keep |-> d.drop, keepCount |-> d.count - d.dropCount]

Opposite(mode) == IF mode = "highest" THEN "lowest" ELSE "highest"

\* the selection of the other kind and the opposite mode: DropLowest(count - n)
\* for KeepHighest(n)
OppositeModeDual(d) ==
    IF HasKeep(d) THEN [drop |-> Opposite(d.keep), dropCount |-> d.count - d.keepCount]
    ELSE [keep |-> Opposite(d.drop), keepCount |-> d.count - d.dropCount]

\* roll has returned under a selection that keeps n dice, 1 <= n < count
SelectedSome ==
    /\ pc = "done"
    /\ HasKeep(dice) \/ HasDrop(dice)
    /\ HasKeep(dice) => dice.keepCount < dice.count

\* no kept die and dropped die have the same value
CleanCut == \A i \in Kept, j \in Dropped : Outcomes[i].value # Outcomes[j].value

\* C18 as stated: KeepHighest(n) and DropHighest(count - n), and KeepLowest(n)
\* and DropLowest(count - n), mark the same indices as kept on the same raw
\* roll sequence.
C18_SameModeDuality ==
    SelectedSome => KeptPlaces = KeptIndices(SameModeDual(dice), rawRolls)

\* C18, amended: KeepHighest(n) and DropLowest(count - n), and KeepLowest(n) and
\* DropHighest(count - n), mark the same indices as kept on the same raw roll
\* sequence whenever no kept and dropped die have the same value; the pair of
\* the same mode never marks the same indices, since one keeps the first n and
\* the other the last n of the same sorted sequence.
C18_OppositeModeDuality ==
    SelectedSome =>
        /\ CleanCut => KeptPlaces = KeptIndices(OppositeModeDual(dice), rawRolls)
        /\ KeptPlaces # KeptIndices(SameModeDual(dice), rawRolls)

\* C18 happens: keep highest 2 of the rolls 1, 3, 2 has kept the places 1 and
\* 2, as drop lowest 1 does, while drop highest 1 keeps the places 0 and 2
C18_Witness ==
    /\ SelectedSome
    /\ HasKeep(dice)
    /\ dice.keep = "highest"
    /\ dice.keepCount = 2
    /\ draws = <<1, 3, 2>>
    /\ KeptPlaces = {1, 2}
    /\ KeptIndices(OppositeModeDual(dice), rawRolls) = {1, 2}
    /\ KeptIndices(SameModeDual(dice), rawRolls) = {0, 2}

\* C19: a die of one side always shows 1 and asks the random source for no
\* word, yet it is a draw like any other: roll on a descriptor with sides = 1
\* returns exactly count outcomes, all of value 1, with no call to the random
\* source; a die of more sides does call it.
C19_OneSidedDie ==
    /\ (pc = "dieDone" /\ max = 1) =>
          /\ result.value = 1
          /\ ~sourceCalled
          /\ randomValue = NoWord
    /\ (pc \in {"rolling", "done"} /\ dice.sides = 1) =>
          /\ ~sourceCalled
          /\ \A i \in 1..Len(draws) : draws[i] = 1
    /\ (pc = "done" /\ dice.sides = 1) =>
          /\ Len(draws) = dice.count
          /\ Len(Outcomes) = dice.count
          /\ \A i \in 1..Len(Outcomes) : Outcomes[i].value = 1
    /\ (pc \in {"done", "dieDone"} /\ max > 1) => sourceCalled

\* C19 happens: three dice of one side have been rolled without a call to the
\* random source
C19_Witness ==
    /\ pc = "done"
    /\ dice.sides = 1
    /\ dice.count = 3
    /\ Len(Outcomes) = 3
    /\ ~sourceCalled

----------------------------------------------------------------------------
(* Two callers at once. *)

\* C20: calls do not interfere: the word a caller reads from its array is the
\* word the source wrote for that caller, no word waits in an array outside a
\* draw or serves two dice, the raw rolls of a caller are the values of the
\* words drawn by that caller, the result of roll is RollResult of the caller's
\* own descriptor and those values, and the outcome of parseDice is that of
\* the caller's own expression.
C20_NoInterference ==
    \A c \in Callers :
        /\ calls[c].pc = "filled" =>
              /\ calls[c].own # NoWord
              /\ arrays[ArrayOf(c)] = calls[c].own
        /\ calls[c].pc # "filled" =>
              /\ calls[c].own = NoWord
              /\ arrays[ArrayOf(c)] = NoWord
        /\ calls[c].rawRolls = calls[c].ownValues
        /\ calls[c].pc \in {"rolling", "filled", "done"} =>
              /\ calls[c].dice = calls[c].outcome.dice
              /\ Len(calls[c].rawRolls) <= calls[c].dice.count
        /\ calls[c].pc \in {"parsed", "failed", "rolling", "filled", "done"} =>
              calls[c].outcome = ParseDice(calls[c].expression)
        /\ calls[c].pc = "done" =>
              calls[c].result = RollResult(calls[c].outcome.dice, calls[c].ownValues)

\* C20 happens: both callers are between crypto.getRandomValues and the read
\* of array[0], with different words, and one of them has a die already
C20_Witness ==
    /\ calls[1].pc = "filled"
    /\ calls[2].pc = "filled"
    /\ calls[1].own # calls[2].own
    /\ calls[1].rawRolls # <<>>
    /\ calls[1].dice # calls[2].dice

----------------------------------------------------------------------------
(* The rejection region. *)

\* the words that make secureRandomInt(sides) draw again
Rejected(sides) == {r \in Words : Redraw(r, sides)}

\* 0xFFFFFFFF mod sides at the width of the source, from
\* 0xFFFFFFFF = 65535 * 65537
MaxUint32Mod(sides) == ((65535 % sides) * (65537 % sides)) % sides

\* C23: for every sides from 2 up to the maximum of a descriptor, which lies
\* below half the range of the random word, the words r >= limit that make a
\* draw start again are fewer than half of all words: at the width of the
\* model for every die drawn, and at 32 bits, where they number
\* 1 + (0xFFFFFFFF mod sides), for every sides in 2..1000.
C23_RedrawBelowHalf ==
    /\ ( /\ pc \in {"die", "dieDone", "rolling", "done"}
         /\ max >= 2
         /\ max <= Pow2(WordBits - 1) - 1 )
       => /\ Rejected(max) = {r \in Words : r >= ClaimedLimit(max)}
          /\ 2 * Cardinality(Rejected(max)) < Cardinality(Words)
    /\ pc = "die" =>
          \A sides \in 2..MaxDiceSides :
              /\ 1 + MaxUint32Mod(sides) <= sides
              /\ 1 + MaxUint32Mod(sides) <= (Pow2(30) - 1) + Pow2(30)

\* C23 happens: a die of three sides has drawn a word of the rejection region
\* and draws again
C23_Witness ==
    /\ pc = "die"
    /\ max = 3
    /\ max <= Pow2(WordBits - 1) - 1
    /\ randomValue # NoWord
    /\ randomValue \in Rejected(max)

----------------------------------------------------------------------------
(* Termination. *)

\* C24: the loop of secureRandomInt draws again only while the word drawn is
\* >= limit and returns on the first word below it; if the source returns a
\* word below limit in the end, every die draw returns, and roll returns after
\* exactly count die draws.
C24_RollTerminates ==
    /\ (pc = "die") ~> (pc = "dieDone")
    /\ (pc = "rolling") ~> (pc = "done")
    /\ [](pc = "done" => Len(draws) = dice.count)
    /\ [][ /\ (pc = "die" /\ max > 1 /\ pc' = "die") => randomValue' >= ClaimedLimit(max)
           /\ (pc = "die" /\ max > 1 /\ pc' = "dieDone") => randomValue' < ClaimedLimit(max)
           /\ (pc = "rolling" /\ pc' = "rolling" /\ max > 1)
                 => \/ randomValue' # NoWord /\ randomValue' >= ClaimedLimit(max)
                                            /\ draws' = draws
                    \/ randomValue' = NoWord /\ Len(draws') = Len(draws) + 1 ]_vars

\* C24 happens: roll has one die, has drawn a word of the rejection region for
\* the next and draws again
C24_Witness ==
    /\ pc = "rolling"
    /\ Len(draws) = 1
    /\ dice.count > 1
    /\ randomValue # NoWord
    /\ randomValue >= ClaimedLimit(max)

----------------------------------------------------------------------------
(* The kept dice and their sum. *)

\* the number of dice a descriptor asks to keep
AskedToKeep(d) ==
    IF HasKeep(d) THEN d.keepCount
    ELSE IF HasDrop(d) THEN d.count - d.dropCount
    ELSE d.count

\* C25: every roll of a descriptor that parseDice returned keeps at least one
\* die: the number of outcomes marked kept is count without a selector,
\* keepCount under keep and count - dropCount under drop, and lies in 1..count.
C25_KeepsAtLeastOne ==
    /\ pc = "parsed" => AskedToKeep(outcome.dice) \in 1..outcome.dice.count
    /\ pc = "done" =>
          /\ Cardinality(Kept) = AskedToKeep(dice)
          /\ Cardinality(Kept) >= 1
          /\ Cardinality(Kept) <= dice.count
          /\ Cardinality(Kept) + Cardinality(Dropped) = dice.count

\* C25 happens: a roll that drops all dice but one has kept exactly one
C25_Witness ==
    /\ pc = "done"
    /\ HasDrop(dice)
    /\ dice.count = 3
    /\ dice.dropCount = 2
    /\ Cardinality(Kept) = 1

\* the descriptor of the other kind and the opposite mode, with the same
\* count, sides and modifier
DualDescriptor(d) ==
    OppositeModeDual(d) @@ [count |-> d.count, sides |-> d.sides, modifier |-> d.modifier]

\* how many kept outcomes of rolls show v
KeptShowing(rolls, v) ==
    Cardinality({i \in DOMAIN rolls : rolls[i].kept /\ rolls[i].value = v})

\* C27: on the same raw rolls KeepHighest(n) and DropLowest(count - n), and
\* KeepLowest(n) and DropHighest(count - n), keep the same values as many times
\* each, and so give the same subtotal and total, also when equal values lie
\* on both sides of the cut and the two keep different indices.
C27_SameValuesKept ==
    SelectedSome =>
        /\ \A v \in 1..dice.sides :
              KeptShowing(Outcomes, v)
                  = KeptShowing(RollResult(DualDescriptor(dice), rawRolls).rolls, v)
        /\ result.subtotal = RollResult(DualDescriptor(dice), rawRolls).subtotal
        /\ result.total = RollResult(DualDescriptor(dice), rawRolls).total

\* C27 happens: keep highest 1 of the rolls 2, 2, 1 has kept index 0 where drop
\* lowest 2 keeps index 1, with the same subtotal
C27_Witness ==
    /\ SelectedSome
    /\ HasKeep(dice)
    /\ dice.keep = "highest"
    /\ dice.keepCount = 1
    /\ draws = <<2, 2, 1>>
    /\ KeptPlaces = {0}
    /\ KeptIndices(DualDescriptor(dice), rawRolls) = {1}
    /\ result.subtotal = 2

\* C28: with k the number of kept dice, k <= subtotal <= k * sides and
\* k + modifier <= total <= k * sides + modifier, the sums taken as roll takes
\* them; count * sides, and so every subtotal, is at most 100000.
C28_TotalBounds ==
    /\ pc = "parsed" => outcome.dice.count * outcome.dice.sides <= 100000
    /\ pc = "done" =>
          /\ Cardinality(Kept) <= result.subtotal
          /\ result.subtotal <= Cardinality(Kept) * dice.sides
          /\ Plus(Cardinality(Kept), dice.modifier) <= result.total
          /\ result.total <= Plus(Cardinality(Kept) * dice.sides, dice.modifier)
          /\ IsInteger(dice.modifier) =>
                /\ Cardinality(Kept) + dice.modifier <= result.total
                /\ result.total <= Cardinality(Kept) * dice.sides + dice.modifier

\* C28 happens: a roll that keeps two of three dice with a negative modifier
\* has reached the highest total it can
C28_Witness ==
    /\ pc = "done"
    /\ dice.count = 3
    /\ dice.sides = 3
    /\ Cardinality(Kept) = 2
    /\ dice.modifier = 0 - 1
    /\ result.subtotal = 6
    /\ result.total = 5


----------------------------------------------------------------------------
(* The form, the history and the toasts. *)

\* text is empty or white space only
Blank(text) == \A i \in 1..Len(text) : text[i] \in WhiteSpace

\* the last handler of DiceInput that ran was handleRoll
Submitted == inputEvent.kind = "submit"

\* what parseDice makes of the text that was submitted
SubmittedOutcome == ParseDice(inputEvent.text)

\* r is a result roll can return for descriptor d
IsRollOf(r, d) ==
    /\ r.dice = d
    /\ Len(r.rolls) = d.count
    /\ \A i \in 1..Len(r.rolls) : r.rolls[i].value \in 1..d.sides
    /\ r = RollResult(d, [i \in 1..Len(r.rolls) |-> r.rolls[i].value])

\* a submit of a text that parses clears the error and calls onRoll once,
\* with a result of roll for the parsed descriptor
ValidSubmit ==
    Submitted /\ SubmittedOutcome.ok
        => /\ inputError = NoError
           /\ Len(inputEvent.onRoll) = 1
           /\ IsRollOf(inputEvent.onRoll[1], SubmittedOutcome.dice)

\* editing the input leaves no error on display and calls nothing
EditClears ==
    inputEvent.kind = "change" => inputError = NoError /\ inputEvent.onRoll = <<>>

\* C26 as stated: a submit of an invalid expression sets the inline error to
\* the reason of the DiceParseError that parseDice throws for it and does not
\* call onRoll; a submit of a valid expression clears the error and calls
\* onRoll exactly once with the roll result; editing clears a displayed error.
C26_ErrorIsParseReason ==
    /\ Submitted /\ ~SubmittedOutcome.ok
          => /\ inputError = Shown(SubmittedOutcome.reason)
             /\ inputEvent.onRoll = <<>>
    /\ ValidSubmit
    /\ EditClears

\* C26, amended: a submit of a blank input shows the form's own message
\* "Please enter a dice expression" and does not call onRoll; a submit of any
\* other invalid expression shows the reason of the DiceParseError and does
\* not call onRoll; a submit of a valid expression clears the error and calls
\* onRoll exactly once with the roll result; editing the input clears a
\* displayed error.  onRoll is called exactly when parsing succeeds.
C26_InlineErrors ==
    /\ Submitted /\ Blank(inputEvent.text)
          => /\ inputError = Shown("Please enter a dice expression")
             /\ inputEvent.onRoll = <<>>
    /\ Submitted /\ ~Blank(inputEvent.text) /\ ~SubmittedOutcome.ok
          => /\ inputError = Shown(SubmittedOutcome.reason)
             /\ inputEvent.onRoll = <<>>
    /\ ValidSubmit
    /\ EditClears
    /\ Submitted => (Len(inputEvent.onRoll) = 1 <=> SubmittedOutcome.ok)

\* C26 happens: a count of zero was submitted, its reason was shown, and the
\* next edit has taken the message away
C26_Witness ==
    /\ inputEvent.kind = "change"
    /\ inputEvent.before = Shown("Invalid dice count: Must be at least 1")
    /\ inputError = NoError

\* C29: the history holds at most 10 entries, the newest first, in the
\* reverse of the order the results arrived in; once more than 10 results
\* have arrived it holds exactly the 10 that arrived last.
C29_TenMostRecent ==
    /\ Len(appRolls) <= 10
    /\ Len(appRolls) = (IF arrived < 10 THEN arrived ELSE 10)
    /\ \A i \in 1..Len(appRolls) : appRolls[i].result = arrived - i + 1

\* C29 happens: twelve results have arrived, the two oldest are gone
C29_Witness ==
    /\ arrived = 12
    /\ Len(appRolls) = 10
    /\ appRolls[1].result = 12
    /\ appRolls[10].result = 3

\* the number in the id `toast-${n}`
IdNumber(id) == DigitsValue(Drop(id, 6))

\* the places of the list before the last call that held toastEvent.id
PlacesOfId == {k \in 1..Len(toastEvent.before) : toastEvent.before[k].id = toastEvent.id}

\* C30: every id addToast returns differs from every id it returned before,
\* the ids come from a counter that goes up by one on every call and so grow
\* in call order, and the new toast is put at the end of the list;
\* removeToast(id) takes out the toast with that id and nothing else, and
\* leaves the list as it is when no toast has that id.
C30_ToastIds ==
    /\ toastId = Len(returned)
    /\ \A i \in 1..Len(returned) : \A j \in 1..Len(returned) :
          i < j => /\ returned[i] # returned[j]
                   /\ IdNumber(returned[i]) < IdNumber(returned[j])
    /\ toastEvent.kind = "addToast"
          => /\ toastEvent.id = returned[Len(returned)]
             /\ Len(toasts) = Len(toastEvent.before) + 1
             /\ Take(toasts, Len(toastEvent.before)) = toastEvent.before
             /\ toasts[Len(toasts)].id = toastEvent.id
    /\ toastEvent.kind = "removeToast"
          => /\ PlacesOfId = {} => toasts = toastEvent.before
             /\ PlacesOfId # {}
                   => \E k \in PlacesOfId :
                         /\ PlacesOfId = {k}
                         /\ toasts = Take(toastEvent.before, k - 1)
                                        \o Drop(toastEvent.before, k)

\* C30 happens: a toast is added after an earlier one was removed
C30_Witness ==
    /\ toastEvent.kind = "addToast"
    /\ Len(returned) = 3
    /\ Len(toasts) = 2
    /\ toasts[1].id = ToastIdOf(2)

====
